---- MODULE Spec2Model ----
(***************************************************************************)
(* Model of the interactive task tracker of src/src/main.rs.               *)
(*                                                                         *)
(* Text (input lines, JSON string bodies, timestamps) is a sequence of     *)
(* one-character strings, so that trimming, parsing and formatting are     *)
(* computed character by character as the code and its libraries do.       *)
(***************************************************************************)
EXTENDS Integers, Sequences, FiniteSets, TLC

(***************************************************************************)
(* Characters and text helpers                                             *)
(***************************************************************************)
DigitChars == <<"0", "1", "2", "3", "4", "5", "6", "7", "8", "9">>

IsDigit(c) == \E i \in 1..10 : DigitChars[i] = c

DigitVal(c) == (CHOOSE i \in 1..10 : DigitChars[i] = c) - 1

\* char::is_whitespace, restricted to the characters of the input alphabet
IsWhitespace(c) == c \in {" ", "\n", "\t", "\r"}

RECURSIVE TrimStart(_)
TrimStart(s) ==
    IF s = <<>> THEN <<>>
    ELSE IF IsWhitespace(s[1]) THEN TrimStart(Tail(s))
    ELSE s

RECURSIVE TrimEnd(_)
TrimEnd(s) ==
    IF s = <<>> THEN <<>>
    ELSE IF IsWhitespace(s[Len(s)]) THEN TrimEnd(SubSeq(s, 1, Len(s) - 1))
    ELSE s

\* str::trim, as used on every line read (main.rs:136 and main.rs:206)
Trim(s) == TrimEnd(TrimStart(s))

\* number of leading decimal digits of s, at most max
RECURSIVE CountDigits(_, _)
CountDigits(s, max) ==
    IF max = 0 \/ s = <<>> THEN 0
    ELSE IF IsDigit(s[1]) THEN 1 + CountDigits(Tail(s), max - 1)
    ELSE 0

\* value of a sequence of decimal digits (short enough not to overflow)
RECURSIVE NatOfDigits(_)
NatOfDigits(s) ==
    IF s = <<>> THEN 0
    ELSE 10 * NatOfDigits(SubSeq(s, 1, Len(s) - 1)) + DigitVal(s[Len(s)])

RECURSIVE StripZeros(_)
StripZeros(s) ==
    IF Len(s) > 1 /\ s[1] = "0" THEN StripZeros(Tail(s)) ELSE s

\* n written with exactly w decimal digits (zero padded)
RECURSIVE PadNum(_, _)
PadNum(n, w) ==
    IF w = 0 THEN <<>>
    ELSE Append(PadNum(n \div 10, w - 1), DigitChars[(n % 10) + 1])

\* lexicographic "a <= b" for digit sequences of equal length
RECURSIVE DigitsLeq(_, _)
DigitsLeq(a, b) ==
    IF a = <<>> THEN TRUE
    ELSE IF DigitVal(a[1]) < DigitVal(b[1]) THEN TRUE
    ELSE IF DigitVal(a[1]) > DigitVal(b[1]) THEN FALSE
    ELSE DigitsLeq(Tail(a), Tail(b))

(***************************************************************************)
(* usize: the index type of complete_task (64-bit target).  A usize value  *)
(* is kept as its decimal digits without leading zeros, since 2^64 - 1     *)
(* exceeds the integers of the model checker.                              *)
(***************************************************************************)
\* usize::MAX = 18446744073709551615
UsizeMaxDigits ==
    <<"1", "8", "4", "4", "6", "7", "4", "4", "0", "7",
      "3", "7", "0", "9", "5", "5", "1", "6", "1", "5">>

FitsUsize(digits) ==
    LET d == StripZeros(digits)
    IN  \/ Len(d) < Len(UsizeMaxDigits)
        \/ Len(d) = Len(UsizeMaxDigits) /\ DigitsLeq(d, UsizeMaxDigits)

AllDigits(s) == \A i \in 1..Len(s) : IsDigit(s[i])

\* ParseUsize without the overflow check
ParseUsizeUnchecked(s) ==
    IF s = <<>> THEN [ok |-> FALSE, val |-> <<>>]
    ELSE IF Len(s) = 1 /\ s[1] \in {"+", "-"} THEN [ok |-> FALSE, val |-> <<>>]
    ELSE LET digits == IF s[1] = "+" THEN Tail(s) ELSE s
         IN  IF ~AllDigits(digits) THEN [ok |-> FALSE, val |-> <<>>]
             ELSE [ok |-> TRUE, val |-> StripZeros(digits)]

\* str::parse::<usize>() (main.rs:178): empty input, a lone sign, a '-' sign
\* (usize is unsigned), a non-digit and an overflowing value are errors; a
\* leading '+' is accepted.
ParseUsize(s) ==
    IF s = <<>> THEN [ok |-> FALSE, val |-> <<>>]
    ELSE IF Len(s) = 1 /\ s[1] \in {"+", "-"} THEN [ok |-> FALSE, val |-> <<>>]
    ELSE LET digits == IF s[1] = "+" THEN Tail(s) ELSE s
         IN  IF ~AllDigits(digits) THEN [ok |-> FALSE, val |-> <<>>]
             ELSE IF ~FitsUsize(digits) THEN [ok |-> FALSE, val |-> <<>>]
             ELSE [ok |-> TRUE, val |-> StripZeros(digits)]

\* whether the usize value idx is a position of a Vec of length n
\* (slice::get_mut returns Some exactly when index < len)
UsizeLess(idx, n) == Len(idx) <= 9 /\ NatOfDigits(idx) < n

(***************************************************************************)
(* Priority (main.rs:11-17)                                                *)
(***************************************************************************)
Priorities == {"High", "Medium", "Low"}

\* derive(PartialOrd, Ord): variants order by declaration, High < Medium < Low
PriorityOrd(p) ==
    CASE p = "High" -> 0
      [] p = "Medium" -> 1
      [] p = "Low" -> 2

\* Serialize_repr with repr(u8): the discriminant of the variant
PriorityRepr(p) ==
    CASE p = "High" -> 0
      [] p = "Medium" -> 1
      [] p = "Low" -> 2

\* Deserialize_repr: a number that is no discriminant is an error
PriorityFromRepr(n) ==
    CASE n = 0 -> [ok |-> TRUE, val |-> "High"]
      [] n = 1 -> [ok |-> TRUE, val |-> "Medium"]
      [] n = 2 -> [ok |-> TRUE, val |-> "Low"]
      [] OTHER -> [ok |-> FALSE, val |-> "Medium"]

(***************************************************************************)
(* Date and time: NaiveDateTime is a record of its calendar fields.        *)
(* A format is a sequence of items, scanned left to right as chrono's      *)
(* parser does: a numeric item skips leading whitespace and takes 1..width *)
(* digits, a literal must match, a space item skips any whitespace.        *)
(***************************************************************************)
Num(w) == [kind |-> "num", width |-> w, ch |-> ""]
Lit(c) == [kind |-> "lit", width |-> 0, ch |-> c]
Space == [kind |-> "space", width |-> 0, ch |-> ""]

RECURSIVE ScanFields(_, _)
ScanFields(s, fmt) ==
    IF fmt = <<>> THEN
        \* input left over after the last item is an error (TooLong)
        [ok |-> s = <<>>, vals |-> <<>>]
    ELSE LET item == Head(fmt) IN
        CASE item.kind = "num" ->
                LET t == TrimStart(s)
                    n == CountDigits(t, item.width)
                IN  IF n = 0 THEN [ok |-> FALSE, vals |-> <<>>]
                    ELSE LET r == ScanFields(SubSeq(t, n + 1, Len(t)), Tail(fmt))
                         IN  [ok |-> r.ok,
                              vals |-> <<NatOfDigits(SubSeq(t, 1, n))>> \o r.vals]
          [] item.kind = "lit" ->
                IF s = <<>> \/ s[1] # item.ch THEN [ok |-> FALSE, vals |-> <<>>]
                ELSE ScanFields(Tail(s), Tail(fmt))
          [] item.kind = "space" -> ScanFields(TrimStart(s), Tail(fmt))

IsLeapYear(y) == (y % 4 = 0 /\ y % 100 # 0) \/ y % 400 = 0

DaysInMonth(y, m) ==
    IF m = 2 THEN (IF IsLeapYear(y) THEN 29 ELSE 28)
    ELSE IF m \in {4, 6, 9, 11} THEN 30
    ELSE 31

\* NaiveDate::from_ymd_opt and NaiveTime::from_hms_opt range checks
ValidDateTime(dt) ==
    /\ dt.month \in 1..12
    /\ dt.day >= 1 /\ dt.day <= DaysInMonth(dt.year, dt.month)
    /\ dt.hour <= 23
    /\ dt.minute <= 59
    /\ dt.second <= 59

NoDateTime == [year |-> 0, month |-> 0, day |-> 0, hour |-> 0, minute |-> 0, second |-> 0]

\* the format string "%H:%M %d-%m-%Y" of main.rs:162
DueTimeFormat ==
    <<Num(2), Lit(":"), Num(2), Space, Num(2), Lit("-"), Num(2), Lit("-"), Num(4)>>

\* NaiveDateTime::parse_from_str(&due_time, "%H:%M %d-%m-%Y") (main.rs:162);
\* the seconds, absent from the format, are 0
ParseDueTime(s) ==
    LET r == ScanFields(s, DueTimeFormat) IN
    IF ~r.ok THEN [ok |-> FALSE, val |-> NoDateTime]
    ELSE LET dt == [year |-> r.vals[5], month |-> r.vals[4], day |-> r.vals[3],
                    hour |-> r.vals[1], minute |-> r.vals[2], second |-> 0]
         IN  IF ValidDateTime(dt) THEN [ok |-> TRUE, val |-> dt]
             ELSE [ok |-> FALSE, val |-> NoDateTime]

\* serde form of NaiveDateTime: YYYY-MM-DDTHH:MM:SS
TimestampFormat ==
    <<Num(4), Lit("-"), Num(2), Lit("-"), Num(2), Lit("T"),
      Num(2), Lit(":"), Num(2), Lit(":"), Num(2)>>

\* FormatTimestamp with day and month exchanged
FormatTimestampDayFirst(dt) ==
    PadNum(dt.year, 4) \o <<"-">> \o PadNum(dt.day, 2) \o <<"-">> \o PadNum(dt.month, 2)
        \o <<"T">> \o PadNum(dt.hour, 2) \o <<":">> \o PadNum(dt.minute, 2)
        \o <<":">> \o PadNum(dt.second, 2)

\* Serialize for NaiveDateTime, reached from Task::to_json (main.rs:83-85)
FormatTimestamp(dt) ==
    PadNum(dt.year, 4) \o <<"-">> \o PadNum(dt.month, 2) \o <<"-">> \o PadNum(dt.day, 2)
        \o <<"T">> \o PadNum(dt.hour, 2) \o <<":">> \o PadNum(dt.minute, 2)
        \o <<":">> \o PadNum(dt.second, 2)

\* Deserialize for NaiveDateTime, reached from serde_json::from_str (main.rs:98)
ParseTimestamp(s) ==
    LET r == ScanFields(s, TimestampFormat) IN
    IF ~r.ok THEN [ok |-> FALSE, val |-> NoDateTime]
    ELSE LET dt == [year |-> r.vals[1], month |-> r.vals[2], day |-> r.vals[3],
                    hour |-> r.vals[4], minute |-> r.vals[5], second |-> r.vals[6]]
         IN  IF ValidDateTime(dt) THEN [ok |-> TRUE, val |-> dt]
             ELSE [ok |-> FALSE, val |-> NoDateTime]

(***************************************************************************)
(* JSON strings: the body of a string literal, between its quotes          *)
(***************************************************************************)
RECURSIVE EscapeJson(_)
EscapeJson(s) ==
    IF s = <<>> THEN <<>>
    ELSE (CASE s[1] = "\"" -> <<"\\", "\"">>
            [] s[1] = "\\" -> <<"\\", "\\">>
            [] s[1] = "\n" -> <<"\\", "n">>
            [] s[1] = "\t" -> <<"\\", "t">>
            [] OTHER -> <<s[1]>>) \o EscapeJson(Tail(s))

RECURSIVE UnescapeJson(_)
UnescapeJson(s) ==
    IF s = <<>> THEN [ok |-> TRUE, val |-> <<>>]
    ELSE IF s[1] = "\\" THEN
        IF Len(s) < 2 THEN [ok |-> FALSE, val |-> <<>>]
        ELSE LET r == UnescapeJson(SubSeq(s, 3, Len(s)))
                 c == CASE s[2] = "\"" -> "\""
                        [] s[2] = "\\" -> "\\"
                        [] s[2] = "n" -> "\n"
                        [] s[2] = "t" -> "\t"
                        [] OTHER -> ""
             IN  IF c = "" THEN [ok |-> FALSE, val |-> <<>>]
                 ELSE [ok |-> r.ok, val |-> <<c>> \o r.val]
    ELSE IF s[1] \in {"\"", "\n", "\t"} THEN
        \* an unescaped quote or control character cannot occur inside a string
        [ok |-> FALSE, val |-> <<>>]
    ELSE LET r == UnescapeJson(Tail(s))
         IN  [ok |-> r.ok, val |-> <<s[1]>> \o r.val]

(***************************************************************************)
(* Task (main.rs:18-24) and its JSON form                                  *)
(*                                                                         *)
(* due_time is an Option: <<>> is None and <<dt>> is Some(dt).             *)
(***************************************************************************)
Task(description, completed, priority, due_time) ==
    [description |-> description, completed |-> completed,
     priority |-> priority, due_time |-> due_time]

\* Task::to_json (main.rs:83-85): the JSON object of a task.  description is
\* the escaped body of the string, priority the number, due_time null (<<>>)
\* or the body of the timestamp string
ToJson(task) ==
    [description |-> EscapeJson(task.description),
     completed |-> task.completed,
     priority |-> PriorityRepr(task.priority),
     due_time |-> IF task.due_time = <<>> THEN <<>>
                  ELSE <<FormatTimestamp(task.due_time[1])>>]

\* Deserialize for Task: every field must decode
FromJson(obj) ==
    LET d == UnescapeJson(obj.description)
        p == PriorityFromRepr(obj.priority)
        t == IF obj.due_time = <<>> THEN [ok |-> TRUE, val |-> NoDateTime]
             ELSE ParseTimestamp(obj.due_time[1])
    IN  [ok |-> d.ok /\ p.ok /\ t.ok,
         val |-> Task(d.val, obj.completed, p.val,
                      IF obj.due_time = <<>> THEN <<>> ELSE <<t.val>>)]

(***************************************************************************)
(* The file tasks.json.  Its contents are either a JSON array of task      *)
(* objects (kind "array") or text that is no JSON array (kind "text":      *)
(* truncated output, another document).  A file can also be absent, or     *)
(* present but refused by the operating system ("locked": no permission).  *)
(***************************************************************************)
NoFile == [kind |-> "absent", items |-> <<>>]
TextFile == [kind |-> "text", items |-> <<>>]
LockedFile == [kind |-> "locked", items |-> <<>>]
ArrayFile(items) == [kind |-> "array", items |-> items]

\* serde_json::from_str::<Vec<Task>> (main.rs:98): the elements are decoded in
\* order and the first one that fails fails the whole decode; val holds the
\* elements decoded before the failure
RECURSIVE DecodeItems(_)
DecodeItems(items) ==
    IF items = <<>> THEN [ok |-> TRUE, val |-> <<>>]
    ELSE LET t == FromJson(Head(items)) IN
         IF ~t.ok THEN [ok |-> FALSE, val |-> <<>>]
         ELSE LET r == DecodeItems(Tail(items))
              IN  [ok |-> r.ok, val |-> <<t.val>> \o r.val]

\* LoadedList keeping the elements decoded before a failure
LoadedListPartial(cur, decoded) == decoded.val

\* the list load_tasks assigns to self.tasks: only a complete decode is kept
LoadedList(cur, decoded) == IF decoded.ok THEN decoded.val ELSE cur

\* TaskManager::load_tasks (main.rs:93-102) on the list cur and the file f:
\* the resulting list and the error returned ("" for Ok)
LoadTasks(cur, f) ==
    IF f.kind \in {"absent", "locked"} THEN [tasks |-> cur, err |-> "io"]
    ELSE IF f.kind # "array" THEN [tasks |-> cur, err |-> "decode"]
    ELSE LET decoded == DecodeItems(f.items)
         IN  [tasks |-> LoadedList(cur, decoded),
              err |-> IF decoded.ok THEN "" ELSE "decode"]

\* the text save_tasks builds (main.rs:105-109): the objects of the tasks,
\* in list order, between brackets
EncodeTasks(ts) == ArrayFile([i \in 1..Len(ts) |-> ToJson(ts[i])])

\* SaveTasks leaving alone a file that holds something else than an array
\* of tasks, and reporting success
SaveTasksKeepingUnread(ts, f, disk) ==
    IF f.kind = "locked" THEN [file |-> f, err |-> "open"]
    ELSE IF f.kind = "text" \/ (f.kind = "array" /\ ~DecodeItems(f.items).ok)
         THEN [file |-> f, err |-> ""]
    ELSE IF disk = "full" THEN [file |-> TextFile, err |-> "write"]
    ELSE [file |-> EncodeTasks(ts), err |-> ""]

\* SaveTasks opening the file without truncate: the array is written behind
\* the one the file holds
SaveTasksAppending(ts, f, disk) ==
    IF f.kind = "locked" THEN [file |-> f, err |-> "open"]
    ELSE IF disk = "full" THEN [file |-> TextFile, err |-> "write"]
    ELSE IF f.kind = "array"
         THEN [file |-> ArrayFile(f.items \o EncodeTasks(ts).items), err |-> ""]
    ELSE [file |-> EncodeTasks(ts), err |-> ""]

\* TaskManager::save_tasks (main.rs:104-120) on the list ts and the file f;
\* disk says whether write_all completes.  The file after the call and the
\* error returned ("" for Ok).  open(truncate, create) empties the file
\* before anything is written, so a failed write leaves a truncated text.
SaveTasks(ts, f, disk) ==
    IF f.kind = "locked" THEN [file |-> f, err |-> "open"]
    ELSE IF disk = "full" THEN [file |-> TextFile, err |-> "write"]
    ELSE [file |-> EncodeTasks(ts), err |-> ""]

(***************************************************************************)
(* TaskManager (main.rs:37-53)                                             *)
(***************************************************************************)
\* InsertByKey with the new task put before the tasks of its own priority
RECURSIVE InsertByKeyUnstable(_, _)
InsertByKeyUnstable(sorted, x) ==
    IF sorted = <<>> THEN <<x>>
    ELSE IF PriorityOrd(sorted[Len(sorted)].priority) < PriorityOrd(x.priority)
         THEN Append(sorted, x)
    ELSE Append(InsertByKeyUnstable(SubSeq(sorted, 1, Len(sorted) - 1), x),
                sorted[Len(sorted)])

\* where a stable sort puts task x among the sorted tasks: after every task
\* whose key is not greater
RECURSIVE InsertByKey(_, _)
InsertByKey(sorted, x) ==
    IF sorted = <<>> THEN <<x>>
    ELSE IF PriorityOrd(sorted[Len(sorted)].priority) <= PriorityOrd(x.priority)
         THEN Append(sorted, x)
    ELSE Append(InsertByKey(SubSeq(sorted, 1, Len(sorted) - 1), x), sorted[Len(sorted)])

\* SortByKey leaving the list in the order of the adds
SortByKeyNone(ts) == ts

\* self.tasks.sort_by_key(|task| task.priority) (main.rs:48): a stable sort
RECURSIVE SortByKey(_)
SortByKey(ts) ==
    IF ts = <<>> THEN <<>>
    ELSE InsertByKey(SortByKey(SubSeq(ts, 1, Len(ts) - 1)), ts[Len(ts)])

\* AddTask overwriting a task that already has the description
AddTaskReplacing(ts, description, priority, due_time) ==
    IF \E i \in 1..Len(ts) : ts[i].description = description
    THEN SortByKey([i \in 1..Len(ts) |->
                       IF ts[i].description = description
                       THEN Task(description, FALSE, priority, due_time)
                       ELSE ts[i]])
    ELSE SortByKey(Append(ts, Task(description, FALSE, priority, due_time)))

\* AddTask putting the new task in its place without sorting the others
AddTaskInserting(ts, description, priority, due_time) ==
    InsertByKey(ts, Task(description, FALSE, priority, due_time))

\* TaskManager::add_task (main.rs:46-49)
AddTask(ts, description, priority, due_time) ==
    SortByKey(Append(ts, Task(description, FALSE, priority, due_time)))

\* CompleteTask taking the index as a position counted from one
CompleteTaskFromOne(ts, index) ==
    IF UsizeLess(index, Len(ts)) /\ NatOfDigits(index) >= 1
    THEN [ts EXCEPT ![NatOfDigits(index)].completed = TRUE]
    ELSE ts

\* CompleteTask flipping the flag instead of setting it
CompleteTaskToggle(ts, index) ==
    IF UsizeLess(index, Len(ts))
    THEN [ts EXCEPT ![NatOfDigits(index) + 1].completed = ~@]
    ELSE ts

\* CompleteTask taking the index for the number of the add that made the
\* task, where descriptions are such numbers: the task keeps its index for ever
CompleteTaskById(ts, index) ==
    [i \in 1..Len(ts) |->
        IF UsizeLess(index, Len(ts)) /\ ts[i].description = PadNum(NatOfDigits(index) + 1, 1)
        THEN [ts[i] EXCEPT !.completed = TRUE]
        ELSE ts[i]]

\* TaskManager::complete_task (main.rs:51-53): get_mut(index) is None past the end
CompleteTask(ts, index) ==
    IF UsizeLess(index, Len(ts))
    THEN [ts EXCEPT ![NatOfDigits(index) + 1].completed = TRUE]
    ELSE ts

(***************************************************************************)
(* TaskManager::print_tasks (main.rs:55-79)                                *)
(***************************************************************************)
\* a > b on NaiveDateTime: the date first, then the time of day
DateTimeGreater(a, b) ==
    LET ka == <<a.year, a.month, a.day, a.hour, a.minute, a.second>>
        kb == <<b.year, b.month, b.day, b.hour, b.minute, b.second>>
    IN  \E i \in 1..6 : ka[i] > kb[i] /\ \A j \in 1..(i - 1) : ka[j] = kb[j]

\* days of the proleptic Gregorian calendar before 1 January of year y
DaysBeforeYear(y) ==
    365 * (y - 1) + ((y - 1) \div 4) - ((y - 1) \div 100) + ((y - 1) \div 400)

\* the day of the year of dt, from 1
RECURSIVE DaysBeforeMonth(_, _)
DaysBeforeMonth(y, m) ==
    IF m = 1 THEN 0 ELSE DaysBeforeMonth(y, m - 1) + DaysInMonth(y, m - 1)

Ordinal(dt) == DaysBeforeMonth(dt.year, dt.month) + dt.day

\* a - b on NaiveDateTime, in whole seconds: the difference of the dates
\* plus the difference of the times of day
DurationSeconds(a, b) ==
    ((DaysBeforeYear(a.year) + Ordinal(a)) - (DaysBeforeYear(b.year) + Ordinal(b))) * 86400
    + ((a.hour * 3600 + a.minute * 60 + a.second)
       - (b.hour * 3600 + b.minute * 60 + b.second))

\* NumHours rounding to the nearest hour
NumHoursRounded(secs) == (secs + 1800) \div 3600

\* Duration::num_hours: the seconds over 3600, truncated toward zero
NumHours(secs) == IF secs >= 0 THEN secs \div 3600 ELSE -((-secs) \div 3600)

\* "{}" of a non-negative integer: its decimal digits
RECURSIVE Decimal(_)
Decimal(n) ==
    IF n < 10 THEN <<DigitChars[n + 1]>>
    ELSE Append(Decimal(n \div 10), DigitChars[(n % 10) + 1])

\* DueStatus taking a due time equal to the clock for time remaining
DueStatusInclusive(due_time, clock) ==
    IF due_time = <<>> THEN <<>>
    ELSE IF ~DateTimeGreater(clock, due_time[1])
         THEN <<"remaining", Decimal(NumHours(DurationSeconds(due_time[1], clock)))>>
    ELSE <<"overdue">>

\* what print_tasks writes after the description (main.rs:64-77): nothing
\* without due time, else the hours left or the overdue mark
DueStatus(due_time, clock) ==
    IF due_time = <<>> THEN <<>>
    ELSE IF DateTimeGreater(due_time[1], clock)
         THEN <<"remaining", Decimal(NumHours(DurationSeconds(due_time[1], clock)))>>
    ELSE <<"overdue">>

\* the lines print_tasks writes for the list ts when the local clock shows
\* clock: per task the mark, the position from 0, the description, the status
PrintTasks(ts, clock) ==
    [i \in 1..Len(ts) |->
        [mark |-> IF ts[i].completed THEN "[x]" ELSE "[ ]",
         index |-> Decimal(i - 1),
         description |-> ts[i].description,
         status |-> DueStatus(ts[i].due_time, clock)]]

(***************************************************************************)
(* Input: the lines the user types, as read_line sees them (with the line  *)
(* terminator).                                                            *)
(***************************************************************************)
Line(s) == s \o <<"\n">>

TokAdd == <<"a", "d", "d">>
TokComplete == <<"c", "o", "m", "p", "l", "e", "t", "e">>
TokPrint == <<"p", "r", "i", "n", "t">>
TokQuit == <<"q", "u", "i", "t">>

TokHigh == <<"h", "i", "g", "h">>
TokMedium == <<"m", "e", "d", "i", "u", "m">>
TokLow == <<"l", "o", "w">>

BuyMilk == <<"B", "u", "y", " ", "m", "i", "l", "k">>
FixBug == <<"F", "i", "x", " ", "b", "u", "g">>

\* lines typed at the command prompt: the four commands, print between
\* blanks, a command in another letter case and an empty line
CommandLines ==
    {Line(TokAdd), Line(TokComplete), Line(TokPrint), Line(TokQuit),
     Line(<<" ">> \o TokPrint \o <<" ">>),
     Line(<<"Q", "u", "i", "t">>), Line(<<>>)}

DescriptionLines == {Line(BuyMilk)}

PriorityLines ==
    {Line(TokHigh), Line(TokMedium), Line(TokLow),
     Line(<<"H", "i", "g", "h">>), Line(<<>>)}

\* 10:30 on 15 January 2024, as typed and as a NaiveDateTime
ValidDueText ==
    <<"1", "0", ":", "3", "0", " ", "1", "5", "-", "0", "1", "-", "2", "0", "2", "4">>

ValidDueTime ==
    [year |-> 2024, month |-> 1, day |-> 15, hour |-> 10, minute |-> 30, second |-> 0]

\* hour 25: the right shape, out of range
BadDueText ==
    <<"2", "5", ":", "0", "0", " ", "0", "1", "-", "0", "1", "-", "2", "0", "2", "4">>

DueLines == {Line(<<>>), Line(ValidDueText), Line(BadDueText)}

\* what the local clock shows during the sessions of the whole program:
\* 08:31 on 15 January 2024
SessionClock ==
    [year |-> 2024, month |-> 1, day |-> 15, hour |-> 8, minute |-> 31, second |-> 0]

\* 2^64, one more than usize::MAX
TwoPow64 ==
    <<"1", "8", "4", "4", "6", "7", "4", "4", "0", "7",
      "3", "7", "0", "9", "5", "5", "1", "6", "1", "6">>

IndexLines ==
    {Line(<<"0">>), Line(<<" ", "1">>), Line(<<"+", "1">>), Line(<<"7">>), Line(<<"-", "1">>),
     Line(<<"x">>), Line(<<>>), Line(TwoPow64)}

\* ParsePriority matching the token whatever its letter case
ParsePriorityAnyCase(tok) ==
    CASE tok \in {TokHigh, <<"H", "i", "g", "h">>} -> [val |-> "High", warn |-> <<>>]
      [] tok = TokMedium -> [val |-> "Medium", warn |-> <<>>]
      [] tok = TokLow -> [val |-> "Low", warn |-> <<>>]
      [] OTHER -> [val |-> "Medium", warn |-> <<"bad priority">>]

\* the match on the priority token (main.rs:146-154)
ParsePriority(tok) ==
    CASE tok = TokHigh -> [val |-> "High", warn |-> <<>>]
      [] tok = TokMedium -> [val |-> "Medium", warn |-> <<>>]
      [] tok = TokLow -> [val |-> "Low", warn |-> <<>>]
      [] OTHER -> [val |-> "Medium", warn |-> <<"bad priority">>]

\* the due time of an add (main.rs:158-169)
ParseDue(text) ==
    IF text = <<>> THEN [val |-> <<>>, warn |-> <<>>]
    ELSE LET r == ParseDueTime(text)
         IN  IF r.ok THEN [val |-> <<r.val>>, warn |-> <<>>]
             ELSE [val |-> <<>>, warn |-> <<"bad date">>]

(***************************************************************************)
(* Files the program may find at its first start                           *)
(***************************************************************************)
Stamp2024 ==
    <<"2", "0", "2", "4", "-", "0", "1", "-", "1", "5", "T",
      "1", "0", ":", "3", "0", ":", "0", "0">>

JsonTask(description, completed, priority, due_time) ==
    [description |-> description, completed |-> completed,
     priority |-> priority, due_time |-> due_time]

\* a Low task whose description holds an escaped quote, then a High task
\* with a due time: well formed, not in priority order
UnsortedFile ==
    ArrayFile(<<JsonTask(<<"a", "\\", "\"", "b">>, TRUE, 2, <<>>),
                JsonTask(FixBug, FALSE, 0, <<Stamp2024>>)>>)

\* a valid task followed by one with the unknown priority code 9
BadPriorityFile ==
    ArrayFile(<<JsonTask(FixBug, FALSE, 0, <<>>), JsonTask(BuyMilk, FALSE, 9, <<>>)>>)

\* a task whose timestamp names the 30th of February
BadStampFile ==
    ArrayFile(<<JsonTask(BuyMilk, FALSE, 1,
                         <<<<"2", "0", "2", "4", "-", "0", "2", "-", "3", "0", "T",
                             "1", "0", ":", "3", "0", ":", "0", "0">>>>)>>)

InitialFiles ==
    {NoFile, LockedFile, TextFile, UnsortedFile, BadPriorityFile, BadStampFile}

(***************************************************************************)
(* The program: main (main.rs:123-201)                                     *)
(***************************************************************************)
\* most tasks a list holds in the model
MaxTasks == 2

VARIABLES
    tasks,    \* task_manager.tasks
    file,     \* tasks.json
    pc,       \* "Start" (before load), "Running" (in the loop), "Terminated"
    inp,      \* the lines the last step read, as typed; the first is the command
    out,      \* what the last step wrote to the standard output
    err,      \* what the last step wrote to the standard error
    reads,    \* times this process opened the file for reading
    writes,   \* times this process opened the file for writing
    saved,    \* <<list>> written by the last save if it succeeded, else <<>>
    now,      \* what the local clock shows
    listing,  \* the lines print_tasks wrote in the last step
    stdin     \* the lines of the standard input not read yet, where the
              \* specification fixes them in advance (else empty)

vars == <<tasks, file, pc, inp, out, err, reads, writes, saved, now, listing, stdin>>

Init ==
    /\ tasks = <<>>
    /\ file \in InitialFiles
    /\ pc = "Start"
    /\ inp = <<>>
    /\ out = <<>>
    /\ err = <<>>
    /\ reads = 0
    /\ writes = 0
    /\ saved = <<>>
    /\ now = SessionClock
    /\ listing = <<>>
    /\ stdin = <<>>

\* TaskManager::new and the load at startup (main.rs:124-128)
Startup ==
    /\ pc = "Start"
    /\ LET r == LoadTasks(tasks, file) IN
        /\ tasks' = r.tasks
        /\ err' = IF r.err = "" THEN <<>> ELSE <<"load error", r.err>>
    /\ reads' = reads + 1
    /\ pc' = "Running"
    /\ inp' = <<>>
    /\ out' = <<>>
    /\ UNCHANGED <<file, writes, saved>>
    /\ listing' = <<>>
    /\ now' = now

\* AddCmd saving the list after every add
AddCmdAutosave(line, d, p, t) ==
    /\ pc = "Running"
    /\ Trim(line) = TokAdd
    /\ LET priority == ParsePriority(Trim(p))
           due_time == ParseDue(Trim(t))
       IN  /\ tasks' = AddTask(tasks, Trim(d), priority.val, due_time.val)
           /\ out' = priority.warn \o due_time.warn \o <<"added">>
           /\ file' = SaveTasks(tasks', file, "ok").file
    /\ inp' = <<line, d, p, t>>
    /\ err' = <<>>
    /\ UNCHANGED <<pc, reads, writes, saved>>
    /\ listing' = <<>>
    /\ now' = now

\* the "add" arm (main.rs:139-173)
AddCmd(line, d, p, t) ==
    /\ pc = "Running"
    /\ Trim(line) = TokAdd
    /\ LET priority == ParsePriority(Trim(p))
           due_time == ParseDue(Trim(t))
       IN  /\ tasks' = AddTask(tasks, Trim(d), priority.val, due_time.val)
           /\ out' = priority.warn \o due_time.warn \o <<"added">>
    /\ inp' = <<line, d, p, t>>
    /\ err' = <<>>
    /\ UNCHANGED <<file, pc, reads, writes, saved>>
    /\ listing' = <<>>
    /\ now' = now

\* CompleteCmd taking "quit" at the index prompt for the command: the list is
\* saved and the loop ends
CompleteCmdQuitting(line, idx) ==
    /\ pc = "Running"
    /\ Trim(line) = TokComplete
    /\ LET index == ParseUsize(Trim(idx)) IN
        IF index.ok
        THEN /\ tasks' = CompleteTask(tasks, index.val)
             /\ out' = <<"list", "completed">>
        ELSE /\ tasks' = tasks
             /\ out' = <<"list", "invalid index">>
    /\ IF Trim(idx) = TokQuit
       THEN /\ pc' = "Terminated"
            /\ file' = SaveTasks(tasks, file, "ok").file
            /\ writes' = writes + 1
       ELSE UNCHANGED <<file, pc, writes>>
    /\ inp' = <<line, idx>>
    /\ err' = <<>>
    /\ UNCHANGED <<reads, saved>>
    /\ listing' = PrintTasks(tasks, now)
    /\ now' = now

\* the "complete" arm (main.rs:174-184)
CompleteCmd(line, idx) ==
    /\ pc = "Running"
    /\ Trim(line) = TokComplete
    /\ LET index == ParseUsize(Trim(idx)) IN
        IF index.ok
        THEN /\ tasks' = CompleteTask(tasks, index.val)
             /\ out' = <<"list", "completed">>
        ELSE /\ tasks' = tasks
             /\ out' = <<"list", "invalid index">>
    /\ inp' = <<line, idx>>
    /\ err' = <<>>
    /\ UNCHANGED <<file, pc, reads, writes, saved>>
    /\ listing' = PrintTasks(tasks, now)
    /\ now' = now

\* the "print" arm (main.rs:185-187)
PrintCmd(line) ==
    /\ pc = "Running"
    /\ Trim(line) = TokPrint
    /\ inp' = <<line>>
    /\ out' = <<"list">>
    /\ err' = <<>>
    /\ UNCHANGED <<tasks, file, pc, reads, writes, saved>>
    /\ listing' = PrintTasks(tasks, now)
    /\ now' = now

\* QuitCmd staying in the loop when the save fails
QuitCmdRetry(line, disk) ==
    /\ pc = "Running"
    /\ Trim(line) = TokQuit
    /\ LET r == SaveTasks(tasks, file, disk) IN
        /\ file' = r.file
        /\ err' = IF r.err = "" THEN <<>> ELSE <<"save error", r.err>>
        /\ saved' = IF r.err = "" THEN <<tasks>> ELSE <<>>
        /\ pc' = IF r.err = "" THEN "Terminated" ELSE "Running"
        /\ out' = IF r.err = "" THEN <<"bye">> ELSE <<>>
    /\ writes' = writes + 1
    /\ inp' = <<line>>
    /\ UNCHANGED <<tasks, reads>>
    /\ listing' = <<>>
    /\ now' = now

\* the "quit" arm (main.rs:188-195)
QuitCmd(line, disk) ==
    /\ pc = "Running"
    /\ Trim(line) = TokQuit
    /\ LET r == SaveTasks(tasks, file, disk) IN
        /\ file' = r.file
        /\ err' = IF r.err = "" THEN <<>> ELSE <<"save error", r.err>>
        /\ saved' = IF r.err = "" THEN <<tasks>> ELSE <<>>
    /\ writes' = writes + 1
    /\ pc' = "Terminated"
    /\ inp' = <<line>>
    /\ out' = <<"bye">>
    /\ UNCHANGED <<tasks, reads>>
    /\ listing' = <<>>
    /\ now' = now

\* UnknownCmd taking a command in another letter case for the command: "Quit"
\* ends the loop
UnknownCmdAnyCase(line) ==
    /\ pc = "Running"
    /\ Trim(line) \notin {TokAdd, TokComplete, TokPrint, TokQuit}
    /\ inp' = <<line>>
    /\ err' = <<>>
    /\ IF Trim(line) = <<"Q", "u", "i", "t">>
       THEN out' = <<"bye">> /\ pc' = "Terminated"
       ELSE out' = <<"unknown command">> /\ pc' = pc
    /\ UNCHANGED <<tasks, file, reads, writes, saved>>
    /\ listing' = <<>>
    /\ now' = now

\* the default arm (main.rs:196-198)
UnknownCmd(line) ==
    /\ pc = "Running"
    /\ Trim(line) \notin {TokAdd, TokComplete, TokPrint, TokQuit}
    /\ inp' = <<line>>
    /\ out' = <<"unknown command">>
    /\ err' = <<>>
    /\ UNCHANGED <<tasks, file, pc, reads, writes, saved>>
    /\ listing' = <<>>
    /\ now' = now

\* the program is started again after it has ended: a new process, with a
\* new, empty manager (main.rs:123-124)
Exec ==
    /\ pc = "Terminated"
    /\ tasks' = <<>>
    /\ pc' = "Start"
    /\ inp' = <<>>
    /\ out' = <<>>
    /\ err' = <<>>
    /\ reads' = 0
    /\ writes' = 0
    /\ UNCHANGED <<file, saved>>
    /\ listing' = <<>>
    /\ now' = now

Next ==
    \/ Startup /\ UNCHANGED stdin
    \/ \E line \in CommandLines, d \in DescriptionLines, p \in PriorityLines, t \in DueLines :
        Len(tasks) < MaxTasks /\ AddCmd(line, d, p, t) /\ UNCHANGED stdin
    \/ \E line \in CommandLines, idx \in IndexLines :
        CompleteCmd(line, idx) /\ UNCHANGED stdin
    \/ \E line \in CommandLines : PrintCmd(line) /\ UNCHANGED stdin
    \/ \E line \in CommandLines, disk \in {"ok", "full"} :
        QuitCmd(line, disk) /\ UNCHANGED stdin
    \/ \E line \in CommandLines : UnknownCmd(line) /\ UNCHANGED stdin
    \/ Exec /\ UNCHANGED stdin

Spec == Init /\ [][Next]_vars

(***************************************************************************)
(* The add operation alone: a session that starts on the empty list (no    *)
(* file) and in which the user only adds, giving the k-th task the         *)
(* description "k".  The description then tells the order of the adds.     *)
(***************************************************************************)
\* most adds of such a session
MaxAdds == 4

InitAdd ==
    /\ tasks = <<>>
    /\ file = NoFile
    /\ pc = "Running"
    /\ inp = <<>>
    /\ out = <<>>
    /\ err = <<"load error", "io">>
    /\ reads = 1
    /\ writes = 0
    /\ saved = <<>>
    /\ now = SessionClock
    /\ listing = <<>>
    /\ stdin = <<>>

NextAdd ==
    \E p \in PriorityLines, t \in DueLines :
        /\ Len(tasks) < MaxAdds
        /\ AddCmd(Line(TokAdd), Line(PadNum(Len(tasks) + 1, 1)), p, t)
        /\ UNCHANGED stdin

SpecAdd == InitAdd /\ [][NextAdd]_vars

(***************************************************************************)
(* Properties                                                              *)
(***************************************************************************)
Sorted(ts) ==
    \A i, j \in 1..Len(ts) : i < j => PriorityOrd(ts[i].priority) <= PriorityOrd(ts[j].priority)

\* C1: starting from the empty list, after every add the list is sorted by
\* priority (High, Medium, Low) and two tasks of equal priority stand in the
\* order in which they were added (under SpecAdd the description of a task is
\* the number of the add that made it).
AddKeepsSortedStable ==
    /\ Sorted(tasks)
    /\ \A i, j \in 1..Len(tasks) :
        (i < j /\ tasks[i].priority = tasks[j].priority)
            => NatOfDigits(tasks[i].description) < NatOfDigits(tasks[j].description)

\* two Medium tasks in their order, behind a High task added after them
AddKeepsSortedStableWitness ==
    /\ Len(tasks) = 3
    /\ tasks[1].priority = "High" /\ tasks[1].description = <<"3">>
    /\ tasks[2].priority = "Medium" /\ tasks[2].description = <<"1">>
    /\ tasks[3].priority = "Medium" /\ tasks[3].description = <<"2">>

(***************************************************************************)
(* Helpers of the properties of the whole program                          *)
(***************************************************************************)
CommandTokens == {TokAdd, TokComplete, TokPrint, TokQuit}

\* the state right after the load at startup
JustStarted == pc = "Running" /\ inp = <<>>

\* how many times x occurs in ts
Count(ts, x) == Cardinality({i \in 1..Len(ts) : ts[i] = x})

Range(ts) == {ts[i] : i \in 1..Len(ts)}

\* bigger is smaller with one more x, in any order
IsWithOneMore(bigger, smaller, x) ==
    /\ Len(bigger) = Len(smaller) + 1
    /\ \A y \in Range(bigger) \cup Range(smaller) \cup {x} :
        Count(bigger, y) = Count(smaller, y) + (IF y = x THEN 1 ELSE 0)

\* C2: the list a new process loads after a successful save equals the list
\* that was saved, in length, order and every field, whatever the file held
\* before the save; the load of a saved file does not fail.
RoundTrip ==
    (JustStarted /\ saved # <<>>) => (err = <<>> /\ tasks = saved[1])

\* a reloaded list of two: a completed task whose description holds a quote,
\* and an open task with a due time
RoundTripWitness ==
    /\ JustStarted
    /\ saved # <<>>
    /\ Len(tasks) = 2
    /\ \E i, j \in 1..2 :
        /\ tasks[i].completed /\ tasks[i].due_time = <<>>
        /\ \E k \in 1..Len(tasks[i].description) : tasks[i].description[k] = "\""
        /\ ~tasks[j].completed /\ tasks[j].due_time = <<ValidDueTime>>

\* C3: complete(i), entered as a one-digit index: at a valid position the task
\* there becomes completed and nothing else changes; past the end the list is
\* unchanged; in both cases the caller gets no error.
CompleteFrame ==
    [][(/\ pc = "Running"
        /\ Trim(inp'[1]) = TokComplete
        /\ Len(Trim(inp'[2])) = 1
        /\ IsDigit(Trim(inp'[2])[1]))
       => LET i == DigitVal(Trim(inp'[2])[1]) IN
          /\ out' = <<"list", "completed">>
          /\ err' = <<>>
          /\ pc' = "Running"
          /\ IF i < Len(tasks)
             THEN /\ Len(tasks') = Len(tasks)
                  /\ tasks'[i + 1].completed
                  /\ tasks'[i + 1].description = tasks[i + 1].description
                  /\ tasks'[i + 1].priority = tasks[i + 1].priority
                  /\ tasks'[i + 1].due_time = tasks[i + 1].due_time
                  /\ \A j \in 1..Len(tasks) : j # i + 1 => tasks'[j] = tasks[j]
             ELSE tasks' = tasks]_vars

\* complete(1) has marked the second of two tasks and left the first open
CompleteFrameWitness ==
    /\ pc = "Running"
    /\ inp = <<Line(TokComplete), Line(<<" ", "1">>)>>
    /\ out = <<"list", "completed">>
    /\ Len(tasks) = 2
    /\ ~tasks[1].completed
    /\ tasks[2].completed

\* C4: the load at startup either succeeds and makes the list the decoded
\* contents of the file, or fails and leaves the list as it was (empty); a
\* missing or refused file, text that is no array, the priority code 9 and a
\* malformed timestamp all fail; in both cases the loop is entered.
LoadAllOrNothing ==
    [][pc = "Start"
       => /\ pc' = "Running"
          /\ \/ /\ err' = <<>>
                /\ file.kind = "array"
                /\ Len(tasks') = Len(file.items)
                /\ \A i \in 1..Len(file.items) :
                    FromJson(file.items[i]).ok /\ tasks'[i] = FromJson(file.items[i]).val
             \/ /\ err' # <<>>
                /\ tasks' = tasks
                /\ tasks' = <<>>
          /\ file \in {NoFile, LockedFile, TextFile, BadPriorityFile, BadStampFile}
                => err' # <<>>
          /\ file = UnsortedFile
                => tasks' = <<Task(<<"a", "\"", "b">>, TRUE, "Low", <<>>),
                              Task(FixBug, FALSE, "High", <<ValidDueTime>>)>>]_vars

\* the load of the file with the priority code 9 failed: the loop runs on
\* the empty list, not on the task that precedes the bad one
LoadAllOrNothingWitness ==
    /\ JustStarted
    /\ file = BadPriorityFile
    /\ err = <<"load error", "decode">>
    /\ tasks = <<>>

\* C5: reading quit in the loop makes one save attempt and ends the loop,
\* whether the save succeeds (the file holds the list) or fails (reported).
QuitSavesOnceAndTerminates ==
    [][(pc = "Running" /\ Trim(inp'[1]) = TokQuit)
       => /\ pc' = "Terminated"
          /\ writes' = writes + 1
          /\ \/ err' = <<>> /\ file' = EncodeTasks(tasks)
             \/ Len(err') = 2 /\ err'[1] = "save error"]_vars

\* the loop has ended after a save that failed
QuitSavesOnceAndTerminatesWitness ==
    /\ pc = "Terminated"
    /\ Trim(inp[1]) = TokQuit
    /\ err = <<"save error", "write">>
    /\ writes = 1
    /\ tasks # <<>>

\* the priority and the due time an add must give, read off the typed text
ExpectedPriority(text) ==
    IF text = TokHigh THEN "High"
    ELSE IF text = TokLow THEN "Low"
    ELSE "Medium"

ExpectedDue(text) == IF text = ValidDueText THEN <<ValidDueTime>> ELSE <<>>

IsNumeral(text) ==
    LET digits == IF text # <<>> /\ text[1] = "+" THEN Tail(text) ELSE text
    IN  digits # <<>> /\ AllDigits(digits)

NumeralDigits(text) == StripZeros(IF text[1] = "+" THEN Tail(text) ELSE text)

\* the numeral names a number that is no position of a list of length n
NumeralOutOfRange(text, n) ==
    Len(NumeralDigits(text)) > 9 \/ NatOfDigits(NumeralDigits(text)) >= n

FileTouchedAtStartupAndQuit ==
    /\ [][/\ pc = "Start" => reads = 0 /\ writes = 0 /\ reads' = 1 /\ writes' = 0
          /\ pc = "Running"
               => /\ reads = 1 /\ writes = 0 /\ reads' = 1
                  /\ writes' = IF Trim(inp'[1]) = TokQuit THEN 1 ELSE 0
                  /\ Trim(inp'[1]) # TokQuit => file' = file]_vars
    /\ [][pc' # "Terminated" => file' = file]_vars

\* two tasks were added and the file is still absent
FileTouchedAtStartupAndQuitWitness ==
    /\ pc = "Running"
    /\ Len(inp) = 4
    /\ Trim(inp[1]) = TokAdd
    /\ Len(tasks) = 2
    /\ file = NoFile
    /\ reads = 1
    /\ writes = 0

\* the tasks of ts that are completed and agree with task x in description,
\* priority and due time
NumCompleted(ts, x) ==
    Cardinality({i \in 1..Len(ts) :
        /\ ts[i].completed
        /\ ts[i].description = x.description
        /\ ts[i].priority = x.priority
        /\ ts[i].due_time = x.due_time})

AnyCompletedMore(ts, us) ==
    \E x \in Range(ts) \cup Range(us) : NumCompleted(us, x) > NumCompleted(ts, x)

\* C10: within a session no step takes a completed flag back (add, complete,
\* print, an unknown command and the save of quit included); the task an add
\* makes is open; a flag turns true only in a complete step, and then it is
\* the flag of the task at the position typed.
CompletedIsMonotonic ==
    [][pc = "Running"
       => /\ \A x \in Range(tasks) \cup Range(tasks') :
                NumCompleted(tasks', x) >= NumCompleted(tasks, x)
          /\ Trim(inp'[1]) = TokAdd
               => /\ Len(tasks') = Len(tasks) + 1
                  /\ ~AnyCompletedMore(tasks, tasks')
          /\ AnyCompletedMore(tasks, tasks')
               => /\ Trim(inp'[1]) = TokComplete
                  /\ IsNumeral(Trim(inp'[2]))
                  /\ LET i == NatOfDigits(NumeralDigits(Trim(inp'[2]))) + 1 IN
                     /\ i <= Len(tasks)
                     /\ ~tasks[i].completed
                     /\ tasks' = [tasks EXCEPT ![i].completed = TRUE]]_vars

\* a task completed at position 0 stands completed at position 1 after the
\* add of a task of higher priority, which is open
CompletedIsMonotonicWitness ==
    /\ pc = "Running"
    /\ Len(inp) = 4
    /\ Trim(inp[1]) = TokAdd
    /\ file = NoFile
    /\ Len(tasks) = 2
    /\ tasks[1].priority = "High" /\ ~tasks[1].completed
    /\ tasks[2].priority = "Low" /\ tasks[2].completed

\* the fields of a task that no operation may edit
Fields(task) == <<task.description, task.priority, task.due_time>>

\* ts without its k-th element
RemoveAt(ts, k) == [i \in 1..(Len(ts) - 1) |-> IF i < k THEN ts[i] ELSE ts[i + 1]]

\* C11: after the load at startup no step of a session removes or edits a
\* task: the length never decreases; an add makes it one more and the other
\* tasks of the new list are the old tasks, each with its description,
\* priority and due time (in the old order when the list was sorted); complete,
\* print, an unknown command and quit with its save keep the length and, at
\* every position, the description, priority and due time.
NothingRemovedOrEdited ==
    [][pc = "Running"
       => /\ Len(tasks') >= Len(tasks)
          /\ \A x \in Range(tasks) :
                Cardinality({i \in 1..Len(tasks') : Fields(tasks'[i]) = Fields(x)})
                    >= Cardinality({i \in 1..Len(tasks) : Fields(tasks[i]) = Fields(x)})
          /\ IF Trim(inp'[1]) = TokAdd
             THEN /\ Len(tasks') = Len(tasks) + 1
                  /\ \E k \in 1..Len(tasks') :
                        /\ \A x \in Range(tasks) :
                              Count(RemoveAt(tasks', k), x) = Count(tasks, x)
                        /\ Sorted(tasks) => RemoveAt(tasks', k) = tasks
             ELSE /\ Len(tasks') = Len(tasks)
                  /\ \A i \in 1..Len(tasks) : Fields(tasks'[i]) = Fields(tasks[i])]_vars

\* a Low task without due time has been added behind a High task with a due
\* time, which has kept its fields
NothingRemovedOrEditedWitness ==
    /\ pc = "Running"
    /\ Len(inp) = 4
    /\ Trim(inp[3]) = TokLow
    /\ Len(tasks) = 2
    /\ Fields(tasks[1]) = <<BuyMilk, "High", <<ValidDueTime>>>>
    /\ Fields(tasks[2]) = <<BuyMilk, "Low", <<>>>>

(***************************************************************************)
(* The listing: sessions on lists of up to MaxListed tasks with and       *)
(* without due time, at a clock that shows one of Clocks for the whole     *)
(* session; the user lists the tasks and completes them.                   *)
(***************************************************************************)
\* most tasks of such a list
MaxListed == 2

\* midnight before 1 March 2024, behind the 29th of February
LeapDueTime ==
    [year |-> 2024, month |-> 3, day |-> 1, hour |-> 0, minute |-> 0, second |-> 0]

\* clock readings around the two due times
Clocks ==
    {SessionClock,
     [SessionClock EXCEPT !.minute = 30],
     [ValidDueTime EXCEPT !.minute = 29, !.second = 1],
     ValidDueTime,
     [ValidDueTime EXCEPT !.second = 1],
     [year |-> 2023, month |-> 12, day |-> 31, hour |-> 23, minute |-> 59, second |-> 59],
     [year |-> 2024, month |-> 2, day |-> 1, hour |-> 0, minute |-> 0, second |-> 0],
     [year |-> 2024, month |-> 2, day |-> 29, hour |-> 23, minute |-> 0, second |-> 1],
     [year |-> 2025, month |-> 1, day |-> 1, hour |-> 9, minute |-> 0, second |-> 0]}

ListedTasks ==
    {Task(BuyMilk, c, "Medium", t) :
        c \in BOOLEAN, t \in {<<>>, <<ValidDueTime>>, <<LeapDueTime>>}}

ListedLists == UNION {[1..n -> ListedTasks] : n \in 0..MaxListed}

\* the loop after an empty command line, on one of the lists
InitList ==
    /\ tasks \in ListedLists
    /\ file = NoFile
    /\ pc = "Running"
    /\ inp = <<Line(<<>>)>>
    /\ out = <<"unknown command">>
    /\ err = <<>>
    /\ reads = 1
    /\ writes = 0
    /\ saved = <<>>
    /\ now \in Clocks
    /\ listing = <<>>
    /\ stdin = <<>>

NextList ==
    \/ \E line \in CommandLines : PrintCmd(line) /\ UNCHANGED stdin
    \/ \E line \in CommandLines, idx \in IndexLines :
        CompleteCmd(line, idx) /\ UNCHANGED stdin

SpecList == InitList /\ [][NextList]_vars

\* the seconds from the start of 2023 to dt, for dt in 2023, 2024 or 2025
Instant(dt) ==
    LET before == <<0, 31, 59, 90, 120, 151, 181, 212, 243, 273, 304, 334>>
        days == (IF dt.year > 2023 THEN 365 ELSE 0) + (IF dt.year > 2024 THEN 366 ELSE 0)
                + before[dt.month] + (IF dt.year = 2024 /\ dt.month > 2 THEN 1 ELSE 0)
                + (dt.day - 1)
    IN  ((days * 24 + dt.hour) * 60 + dt.minute) * 60 + dt.second

\* C12: in a listing made while the clock shows now, a task whose due time
\* is strictly later than now has the status "remaining" with the whole
\* hours h of due time - now (3600 h <= seconds left < 3600 (h + 1): 1 for
\* 1 h 59 min, 0 for less than an hour); a task whose due time is now or
\* earlier has the status "overdue"; a task without due time has no status.
DueStatusOfListing ==
    [][(pc = "Running" /\ Trim(inp'[1]) \in {TokPrint, TokComplete})
       => /\ Len(listing') = Len(tasks)
          /\ \A i \in 1..Len(tasks) :
                LET due == tasks[i].due_time
                    status == listing'[i].status
                IN  IF due = <<>> THEN status = <<>>
                    ELSE LET left == Instant(due[1]) - Instant(now) IN
                         /\ left > 0
                              => /\ Len(status) = 2
                                 /\ status[1] = "remaining"
                                 /\ AllDigits(status[2])
                                 /\ 3600 * NatOfDigits(status[2]) <= left
                                 /\ left < 3600 * (NatOfDigits(status[2]) + 1)
                         /\ left <= 0 => status = <<"overdue">>
                         /\ left = 7140 => status = <<"remaining", <<"1">>>>
                         /\ (0 < left /\ left < 3600) => status = <<"remaining", <<"0">>>>]_vars

\* a listing at 10:30:00 on 15 January 2024: the task due at that moment is
\* overdue, the task due on 1 March has 1093 hours left
DueStatusOfListingWitness ==
    /\ pc = "Running"
    /\ Trim(inp[1]) = TokPrint
    /\ now = ValidDueTime
    /\ Len(listing) = 2
    /\ tasks[1].due_time = <<ValidDueTime>> /\ listing[1].status = <<"overdue">>
    /\ tasks[2].due_time = <<LeapDueTime>>
    /\ listing[2].status = <<"remaining", <<"1", "0", "9", "3">>>>

(***************************************************************************)
(* save_tasks called several times on one manager whose list nobody        *)
(* changes, each call with a disk that takes the write or is full.         *)
(***************************************************************************)
\* most calls of save_tasks
MaxSaves == 3

InitSave ==
    /\ tasks \in ListedLists
    /\ file \in InitialFiles
    /\ pc = "Running"
    /\ inp = <<Line(<<>>)>>
    /\ out = <<"unknown command">>
    /\ err = <<>>
    /\ reads = 1
    /\ writes = 0
    /\ saved = <<>>
    /\ now = SessionClock
    /\ listing = <<>>
    /\ stdin = <<>>

\* one call of save_tasks (main.rs:104-120), its error reported as main does
SaveCall(disk) ==
    /\ pc = "Running"
    /\ writes < MaxSaves
    /\ LET r == SaveTasks(tasks, file, disk) IN
        /\ file' = r.file
        /\ err' = IF r.err = "" THEN <<>> ELSE <<"save error", r.err>>
        /\ saved' = IF r.err = "" THEN <<tasks>> ELSE <<>>
    /\ writes' = writes + 1
    /\ UNCHANGED <<tasks, pc, inp, out, reads, now, listing, stdin>>

NextSave == \E disk \in {"ok", "full"} : SaveCall(disk)

SpecSave == InitSave /\ [][NextSave]_vars

\* C13 as claimed: a call of save that follows another call of save, the
\* list unchanged in between, leaves the file as the call before left it;
\* save never changes the list.
SaveIdempotentAsClaimed ==
    [][/\ tasks' = tasks
       /\ writes >= 1 => file' = file]_vars

\* C13, amended: when a call of save succeeds after a call that succeeded,
\* the list unchanged in between, the file holds what it held after the
\* call before, the array of the list; a call that fails while it writes
\* leaves a truncated file, whatever the call before wrote; a call that
\* cannot open the file leaves it as it was; save never changes the list.
SaveIdempotent ==
    [][/\ tasks' = tasks
       /\ (writes >= 1 /\ err = <<>> /\ err' = <<>>)
            => file' = file /\ file' = EncodeTasks(tasks)
       /\ err' = <<"save error", "write">> => file' = TextFile
       /\ err' = <<"save error", "open">> => file' = file]_vars

\* a second call has succeeded on a list of two tasks: the file is the
\* array of the list
SaveIdempotentWitness ==
    /\ writes = 2
    /\ err = <<>>
    /\ saved = <<tasks>>
    /\ Len(tasks) = 2
    /\ file = EncodeTasks(tasks)

(***************************************************************************)
(* Sessions with two descriptions, "Buy milk" and "Fix bug", from an       *)
(* absent file: adds of High and Medium tasks without due time, complete   *)
(* at the positions 0 and 1, quit, and the next start of the program.      *)
(***************************************************************************)
\* most tasks of such a session
MaxScenarioTasks == 2

InitScenario ==
    /\ tasks = <<>>
    /\ file = NoFile
    /\ pc = "Start"
    /\ inp = <<>>
    /\ out = <<>>
    /\ err = <<>>
    /\ reads = 0
    /\ writes = 0
    /\ saved = <<>>
    /\ now = SessionClock
    /\ listing = <<>>
    /\ stdin = <<>>

NextScenario ==
    \/ Startup /\ UNCHANGED stdin
    \/ \E d \in {Line(BuyMilk), Line(FixBug)}, p \in {Line(TokHigh), Line(TokMedium)} :
        /\ Len(tasks) < MaxScenarioTasks
        /\ AddCmd(Line(TokAdd), d, p, Line(<<>>))
        /\ UNCHANGED stdin
    \/ \E idx \in {Line(<<"0">>), Line(<<"1">>)} :
        CompleteCmd(Line(TokComplete), idx) /\ UNCHANGED stdin
    \/ QuitCmd(Line(TokQuit), "ok") /\ UNCHANGED stdin
    \/ Exec /\ UNCHANGED stdin

SpecScenario == InitScenario /\ [][NextScenario]_vars

\* the lists of the scenario: after the first add, after the second add,
\* after complete(0)
AfterFirstAdd == <<Task(BuyMilk, FALSE, "Medium", <<>>)>>

AfterSecondAdd == <<Task(FixBug, FALSE, "High", <<>>), Task(BuyMilk, FALSE, "Medium", <<>>)>>

AfterComplete == <<Task(FixBug, TRUE, "High", <<>>), Task(BuyMilk, FALSE, "Medium", <<>>)>>

\* C14: on the empty list add("Buy milk", medium, no due time) gives [Buy
\* milk]; on that list add("Fix bug", high, no due time) gives [Fix bug
\* (High), Buy milk (Medium)]; on that list complete(0) marks Fix bug and not
\* Buy milk; the quit that saves that list writes an array of two objects,
\* and the load of the next start gives the same two tasks, in the same
\* order, with the same completed flags.
EndToEndScenario ==
    [][/\ (/\ pc = "Running" /\ tasks = <<>>
           /\ inp' = <<Line(TokAdd), Line(BuyMilk), Line(TokMedium), Line(<<>>)>>)
            => tasks' = AfterFirstAdd
       /\ (/\ pc = "Running" /\ tasks = AfterFirstAdd
           /\ inp' = <<Line(TokAdd), Line(FixBug), Line(TokHigh), Line(<<>>)>>)
            => tasks' = AfterSecondAdd
       /\ (/\ pc = "Running" /\ tasks = AfterSecondAdd
           /\ inp' = <<Line(TokComplete), Line(<<"0">>)>>)
            => tasks' = AfterComplete /\ out' = <<"list", "completed">>
       /\ (/\ pc = "Running" /\ tasks = AfterComplete
           /\ inp' = <<Line(TokQuit)>> /\ err' = <<>>)
            => /\ saved' = <<AfterComplete>>
               /\ file'.kind = "array"
               /\ Len(file'.items) = 2
               /\ file'.items[1].completed /\ file'.items[1].priority = 0
               /\ ~file'.items[2].completed /\ file'.items[2].priority = 1
       /\ (pc = "Start" /\ saved = <<AfterComplete>>)
            => tasks' = AfterComplete /\ err' = <<>>]_vars

\* the next start has loaded the list of the scenario from the file the
\* quit wrote
EndToEndScenarioWitness ==
    /\ JustStarted
    /\ saved = <<AfterComplete>>
    /\ tasks = AfterComplete
    /\ file = EncodeTasks(AfterComplete)
    /\ err = <<>>

(***************************************************************************)
(* The loop on a standard input that is fixed in advance: up to MaxScript  *)
(* lines, then the end of the input.  One of the lines is no UTF-8 text.   *)
(* The process is scheduled as long as it can take a step: it never waits  *)
(* for input, which is all there.                                          *)
(***************************************************************************)
\* most lines of the standard input
MaxScript == 4

\* a byte that occurs in no UTF-8 text
InvalidByte == "\\xFF"

IsUtf8(line) == \A i \in 1..Len(line) : line[i] # InvalidByte

ScriptLines ==
    {Line(TokAdd), Line(TokComplete), Line(TokPrint), Line(TokQuit), Line(<<>>),
     Line(<<InvalidByte>>)}

Scripts == UNION {[1..n -> ScriptLines] : n \in 0..MaxScript}

\* what the k-th read_line from now reads into its empty string (main.rs:
\* 134-135, 204-205): the k-th line, or nothing at the end of the input
ReadLine(lines, k) == IF k <= Len(lines) THEN lines[k] ELSE <<>>

\* the input behind its first n lines
Drop(lines, n) == IF n >= Len(lines) THEN <<>> ELSE SubSeq(lines, n + 1, Len(lines))

\* the number of read_line calls of the arm of command line cmd
ParamReads(cmd) ==
    IF Trim(cmd) = TokAdd THEN 3
    ELSE IF Trim(cmd) = TokComplete THEN 1
    ELSE 0

InitLoop ==
    /\ tasks = <<>>
    /\ file = NoFile
    /\ pc = "Start"
    /\ inp = <<>>
    /\ out = <<>>
    /\ err = <<>>
    /\ reads = 0
    /\ writes = 0
    /\ saved = <<>>
    /\ now = SessionClock
    /\ listing = <<>>
    /\ stdin \in Scripts

\* read_line(..).unwrap() on a line that is no UTF-8 text (main.rs:135, 205):
\* the process panics at the first such line among those the iteration
\* reads, after what the arm wrote before that read
ReadPanics ==
    /\ pc = "Running"
    /\ LET cmd == ReadLine(stdin, 1)
           n == IF IsUtf8(cmd) THEN 1 + ParamReads(cmd) ELSE 1
           bad == {k \in 1..n : ~IsUtf8(ReadLine(stdin, k))}
       IN  /\ bad # {}
           /\ LET k == CHOOSE k \in bad : \A j \in bad : k <= j IN
                /\ inp' = [i \in 1..k |-> ReadLine(stdin, i)]
                /\ stdin' = Drop(stdin, k)
                /\ out' = IF k = 2 /\ Trim(cmd) = TokComplete THEN <<"list">>
                          ELSE IF k = 4 THEN ParsePriority(Trim(ReadLine(stdin, 3))).warn
                          ELSE <<>>
                /\ listing' = IF k = 2 /\ Trim(cmd) = TokComplete
                              THEN PrintTasks(tasks, now)
                              ELSE <<>>
    /\ pc' = "Aborted"
    /\ err' = <<"panic">>
    /\ UNCHANGED <<tasks, file, reads, writes, saved, now>>

NextLoop ==
    \/ Startup /\ UNCHANGED stdin
    \/ /\ \A k \in 1..4 : IsUtf8(ReadLine(stdin, k))
       /\ AddCmd(ReadLine(stdin, 1), ReadLine(stdin, 2), ReadLine(stdin, 3),
                 ReadLine(stdin, 4))
       /\ stdin' = Drop(stdin, 4)
    \/ /\ \A k \in 1..2 : IsUtf8(ReadLine(stdin, k))
       /\ CompleteCmd(ReadLine(stdin, 1), ReadLine(stdin, 2))
       /\ stdin' = Drop(stdin, 2)
    \/ /\ PrintCmd(ReadLine(stdin, 1))
       /\ stdin' = Drop(stdin, 1)
    \/ /\ \E disk \in {"ok", "full"} : QuitCmd(ReadLine(stdin, 1), disk)
       /\ stdin' = Drop(stdin, 1)
    \/ /\ IsUtf8(ReadLine(stdin, 1))
       /\ UnknownCmd(ReadLine(stdin, 1))
       /\ stdin' = Drop(stdin, 1)
    \/ ReadPanics

SpecLoop == InitLoop /\ [][NextLoop]_vars /\ WF_vars(NextLoop)

\* the state in which the loop ends up on the input lines, by the framing
\* of the commands: add takes the next three lines, complete the next one
RECURSIVE LoopOutcome(_)
LoopOutcome(lines) ==
    IF lines = <<>> THEN "Running"
    ELSE IF ~IsUtf8(lines[1]) THEN "Aborted"
    ELSE IF Trim(lines[1]) = TokQuit THEN "Terminated"
    ELSE LET n == IF Trim(lines[1]) = TokAdd THEN 4
                  ELSE IF Trim(lines[1]) = TokComplete THEN 2
                  ELSE 1
         IN  IF \E k \in 2..n : k <= Len(lines) /\ ~IsUtf8(lines[k]) THEN "Aborted"
             ELSE LoopOutcome(Drop(lines, n))

\* LoopOutcome when every line is read as text
RECURSIVE LoopOutcomeOfText(_)
LoopOutcomeOfText(lines) ==
    IF lines = <<>> THEN "Running"
    ELSE IF Trim(lines[1]) = TokQuit THEN "Terminated"
    ELSE LoopOutcomeOfText(Drop(lines, IF Trim(lines[1]) = TokAdd THEN 4
                                       ELSE IF Trim(lines[1]) = TokComplete THEN 2
                                       ELSE 1))

\* what C15 says of one iteration that has read its lines: only quit at the
\* command prompt ends the loop; add reads three more lines and complete one
\* more, taken as data: no save, the file and the counter of writes as they
\* were, and the description of the added task is the line typed
IterationAsClaimed ==
    /\ pc' = "Terminated" <=> Trim(inp'[1]) = TokQuit
    /\ Trim(inp'[1]) # TokQuit => pc' = "Running"
    /\ Trim(inp'[1]) = TokAdd
         => /\ Len(inp') = 4
            /\ writes' = writes /\ file' = file
            /\ \E i \in 1..Len(tasks') : tasks'[i].description = Trim(inp'[2])
    /\ Trim(inp'[1]) = TokComplete
         => /\ Len(inp') = 2
            /\ writes' = writes /\ file' = file
    /\ Trim(inp'[1]) \notin {TokAdd, TokComplete} => Len(inp') = 1
    /\ \A k \in 1..Len(inp') : inp'[k] = ReadLine(stdin, k)
    /\ stdin' = Drop(stdin, Len(inp'))

\* C15 as claimed: every iteration is as above; if quit is read at the
\* command prompt the loop reaches Terminated, and if it never is the loop
\* stays Running for ever.
LoopEndsOnlyByQuitAsClaimed ==
    /\ [][pc = "Running" => IterationAsClaimed]_vars
    /\ (pc = "Running" /\ LoopOutcomeOfText(stdin) = "Terminated") ~> (pc = "Terminated")
    /\ []((pc = "Running" /\ LoopOutcomeOfText(stdin) = "Running") => [](pc = "Running"))

\* C15, amended: an iteration all of whose reads give text is as claimed; an
\* iteration that reads a line that is no UTF-8 text aborts the process at
\* that read, without a save and with the list and the file as they were;
\* the loop reaches Terminated if quit is read at the command prompt before
\* any such line, stays Running for ever if neither is read, and is aborted
\* if such a line is read first.
LoopEndsOnlyByQuit ==
    /\ [][pc = "Running"
          => IF IsUtf8(inp'[Len(inp')])
             THEN IterationAsClaimed
             ELSE /\ pc' = "Aborted"
                  /\ tasks' = tasks /\ file' = file /\ writes' = writes
                  /\ \A k \in 1..Len(inp') : inp'[k] = ReadLine(stdin, k)
                  /\ \A k \in 1..(Len(inp') - 1) : IsUtf8(inp'[k])]_vars
    /\ [][pc' = "Aborted" => (pc = "Running" /\ ~IsUtf8(inp'[Len(inp')]))]_vars
    /\ (pc = "Running" /\ LoopOutcome(stdin) = "Terminated") ~> (pc = "Terminated")
    /\ (pc = "Running" /\ LoopOutcome(stdin) = "Aborted") ~> (pc = "Aborted")
    /\ []((pc = "Running" /\ LoopOutcome(stdin) = "Running") => [](pc = "Running"))

\* "quit" was typed at the three prompts of an add: it is the description of
\* the task added, nothing was saved, the loop runs on at the end of the input
LoopEndsOnlyByQuitWitness ==
    /\ pc = "Running"
    /\ inp = <<Line(TokAdd), Line(TokQuit), Line(TokQuit), Line(TokQuit)>>
    /\ stdin = <<>>
    /\ tasks = <<Task(TokQuit, FALSE, "Medium", <<>>)>>
    /\ out = <<"bad priority", "bad date", "added">>
    /\ writes = 0
    /\ file = NoFile

(***************************************************************************)
(* Positions: a session from the empty list in which the user adds tasks   *)
(* of the three priorities, the k-th with the description "k", and         *)
(* completes tasks at the positions 0, 1, 2.                               *)
(***************************************************************************)
\* most tasks of such a session
MaxPositions == 3

NextPosition ==
    \/ \E p \in {Line(TokHigh), Line(TokMedium), Line(TokLow)} :
        /\ Len(tasks) < MaxPositions
        /\ AddCmd(Line(TokAdd), Line(PadNum(Len(tasks) + 1, 1)), p, Line(<<>>))
        /\ UNCHANGED stdin
    \/ \E idx \in {Line(<<"0">>), Line(<<"1">>), Line(<<"2">>)} :
        CompleteCmd(Line(TokComplete), idx) /\ UNCHANGED stdin

SpecPosition == InitAdd /\ [][NextPosition]_vars

\* the last position of ts whose task has a priority at or before p, 0 if none
LastAtOrBefore(ts, p) ==
    LET at == {k \in 1..Len(ts) : PriorityOrd(ts[k].priority) <= PriorityOrd(p)}
    IN  IF at = {} THEN 0 ELSE CHOOSE k \in at : \A j \in at : j <= k

\* C16: complete(i) sets the flag of the task that stands at position i when
\* it is called, and of no other.  An add to a sorted list puts the new task
\* right behind the last task whose priority is at or before its own; every
\* task of a priority strictly after it moves from k to k + 1 and every other
\* task stays where it is; so at every position from that of the new task on
\* stands another task than before the add.
PositionalIdentity ==
    [][pc = "Running"
       => /\ Trim(inp'[1]) = TokComplete
               => LET i == DigitVal(Trim(inp'[2])[1]) + 1 IN
                  IF i <= Len(tasks)
                  THEN tasks' = [tasks EXCEPT ![i].completed = TRUE]
                  ELSE tasks' = tasks
          /\ (Trim(inp'[1]) = TokAdd /\ Sorted(tasks))
               => LET p == ExpectedPriority(Trim(inp'[3]))
                      at == LastAtOrBefore(tasks, p) + 1
                  IN  /\ Len(tasks') = Len(tasks) + 1
                      /\ tasks'[at] = Task(Trim(inp'[2]), FALSE, p, <<>>)
                      /\ \A k \in 1..Len(tasks) :
                            IF PriorityOrd(tasks[k].priority) > PriorityOrd(p)
                            THEN tasks'[k + 1] = tasks[k] /\ k >= at
                            ELSE tasks'[k] = tasks[k] /\ k < at
                      /\ \A k \in at..Len(tasks) : tasks'[k] # tasks[k]]_vars

\* position 0 before and after an add: the Medium task "1" was completed at
\* position 0; the High task "3", added later, now stands there, open: a
\* second complete(0) would mark it
PositionalIdentityWitness ==
    /\ pc = "Running"
    /\ Len(inp) = 4
    /\ Len(tasks) = 3
    /\ tasks[1] = Task(<<"3">>, FALSE, "High", <<>>)
    /\ tasks[2] = Task(<<"1">>, TRUE, "Medium", <<>>)
    /\ tasks[3] = Task(<<"2">>, FALSE, "Low", <<>>)

(***************************************************************************)
(* Consecutive sessions, from an absent file or from a file whose tasks    *)
(* are not in priority order: startup, commands, quit, and the program     *)
(* started again.                                                          *)
(***************************************************************************)
\* most tasks of a list in these sessions
MaxSessionTasks == 3

InitSessions ==
    /\ tasks = <<>>
    /\ file \in {NoFile, UnsortedFile}
    /\ pc = "Start"
    /\ inp = <<>>
    /\ out = <<>>
    /\ err = <<>>
    /\ reads = 0
    /\ writes = 0
    /\ saved = <<>>
    /\ now = SessionClock
    /\ listing = <<>>
    /\ stdin = <<>>

NextSessions ==
    \/ Startup /\ UNCHANGED stdin
    \/ \E p \in {Line(TokHigh), Line(TokMedium), Line(TokLow)} :
        /\ Len(tasks) < MaxSessionTasks
        /\ AddCmd(Line(TokAdd), Line(BuyMilk), p, Line(<<>>))
        /\ UNCHANGED stdin
    \/ \E idx \in {Line(<<"0">>), Line(<<"1">>)} :
        CompleteCmd(Line(TokComplete), idx) /\ UNCHANGED stdin
    \/ PrintCmd(Line(TokPrint)) /\ UNCHANGED stdin
    \/ \E disk \in {"ok", "full"} : QuitCmd(Line(TokQuit), disk) /\ UNCHANGED stdin
    \/ UnknownCmd(Line(<<>>)) /\ UNCHANGED stdin
    \/ Exec /\ UNCHANGED stdin

SpecSessions == InitSessions /\ [][NextSessions]_vars

\* the file holds no array, or an array whose priority codes do not decrease
FileSorted ==
    file.kind = "array"
        => \A i, j \in 1..Len(file.items) :
              i < j => file.items[i].priority <= file.items[j].priority

\* C17: when the file is absent at first and written only by the save of
\* quit, the list is sorted by priority in every state of every session and
\* every file written holds a sorted array.  A list loaded from a file is in
\* the order of the file, sorted or not; complete, print, an unknown command
\* and quit leave the order as it is; an add leaves the whole list sorted.
SortedAcrossSessions ==
    /\ (file = NoFile) => [](Sorted(tasks) /\ FileSorted)
    /\ [][/\ (pc = "Start" /\ err' = <<>>)
               => /\ Len(tasks') = Len(file.items)
                  /\ \A i \in 1..Len(tasks') :
                        PriorityRepr(tasks'[i].priority) = file.items[i].priority
                  /\ Sorted(tasks') <=> FileSorted
          /\ (pc = "Running" /\ Trim(inp'[1]) # TokAdd)
               => /\ Len(tasks') = Len(tasks)
                  /\ \A i \in 1..Len(tasks) : Fields(tasks'[i]) = Fields(tasks[i])
                  /\ Sorted(tasks') <=> Sorted(tasks)
          /\ (pc = "Running" /\ Trim(inp'[1]) = TokAdd)
               => /\ Sorted(tasks')
                  /\ IsWithOneMore(tasks', tasks,
                         Task(Trim(inp'[2]), FALSE, ExpectedPriority(Trim(inp'[3])), <<>>))]_vars

\* the list of the file, Low before High, was loaded in that order, and the
\* add of a Medium task has sorted the whole list: High, Medium, Low
SortedAcrossSessionsWitness ==
    /\ pc = "Running"
    /\ file = UnsortedFile
    /\ Len(inp) = 4
    /\ Len(tasks) = 3
    /\ tasks[1].priority = "High" /\ tasks[1].description = FixBug
    /\ tasks[2] = Task(BuyMilk, FALSE, "Medium", <<>>)
    /\ tasks[3].priority = "Low"

(***************************************************************************)
(* The whole program, first started on a file that exists and is malformed *)
(***************************************************************************)
InitMalformed ==
    /\ tasks = <<>>
    /\ file \in {TextFile, BadPriorityFile, BadStampFile}
    /\ pc = "Start"
    /\ inp = <<>>
    /\ out = <<>>
    /\ err = <<>>
    /\ reads = 0
    /\ writes = 0
    /\ saved = <<>>
    /\ now = SessionClock
    /\ listing = <<>>
    /\ stdin = <<>>

SpecMalformed == InitMalformed /\ [][Next]_vars

\* the file exists and is no array of tasks
Malformed(f) ==
    \/ f.kind = "text"
    \/ f.kind = "array" /\ \E i \in 1..Len(f.items) : ~FromJson(f.items[i]).ok

\* C18: the load of a malformed file fails and the session starts on the
\* empty list; during that session the list grows only by the tasks typed
\* at add, so it holds nothing of the file; a quit whose save succeeds
\* replaces the file by the array of that list (the empty array when
\* nothing was added), and the next start loads that list: what the file
\* held before is gone.
MalformedFileIsOverwritten ==
    [][/\ (pc = "Start" /\ Malformed(file))
           => /\ tasks' = <<>>
              /\ err' = <<"load error", "decode">>
              /\ pc' = "Running"
       /\ (pc = "Running" /\ Malformed(file))
           => /\ \A i \in 1..Len(tasks) : tasks[i].description = Trim(Line(BuyMilk))
              /\ IF Trim(inp'[1]) = TokAdd
                 THEN IsWithOneMore(tasks', tasks,
                          Task(Trim(inp'[2]), FALSE, ExpectedPriority(Trim(inp'[3])),
                               ExpectedDue(Trim(inp'[4]))))
                 ELSE Len(tasks') = Len(tasks)
              /\ (Trim(inp'[1]) = TokQuit /\ err' = <<>>)
                   => /\ file' = EncodeTasks(tasks)
                      /\ file' # file
                      /\ ~Malformed(file')
                      /\ Len(file'.items) = Len(tasks)
                      /\ tasks = <<>> => file' = ArrayFile(<<>>)
                      /\ saved' = <<tasks>>
       /\ (pc = "Start" /\ saved # <<>>)
           => tasks' = saved[1] /\ err' = <<>>]_vars

\* the session on the file with the priority code 9 has ended without an
\* add: the file is the empty array, the two tasks it held are gone
MalformedFileIsOverwrittenWitness ==
    /\ pc = "Terminated"
    /\ reads = 1
    /\ writes = 1
    /\ err = <<>>
    /\ tasks = <<>>
    /\ saved = <<<<>>>>
    /\ file = ArrayFile(<<>>)

====
